---- MODULE Spec2Model ----
(***************************************************************************)
(* Model of package env (src/env.go): the process-wide Host/User snapshot  *)
(* taken by getEnv during variable initialisation, and the reflection      *)
(* based binder ReadEnvVars / getEnvVal.                                    *)
(*                                                                         *)
(* A Go string is modelled as a sequence of one-character strings, so that *)
(* strings.ToUpper, strconv.Atoi and strings.Split are computed character  *)
(* by character.  A []string is a sequence of such sequences.              *)
(***************************************************************************)
EXTENDS Integers, Sequences, FiniteSets, TLC

VARIABLES
    pc,      \* "boot" before the package variables are initialised, then "ready"
    goos,    \* runtime.GOOS of the build
    osenv,   \* the process environment: name -> [set, val]
    env,     \* the package variable env: [Host, User]
    envSep,  \* the package variable envSep ("" until getEnv has returned)
    call     \* the most recent operation on the package and what the caller saw

vars == <<pc, goos, osenv, env, envSep, call>>

\* ------------------------------------------------------------------ bounds

\* Largest number of fields of a record handed to ReadEnvVars.
MaxFields == 2

\* ----------------------------------------------------------- Go strings

EmptyStr == <<>>

LowerLetters ==
    <<"a","b","c","d","e","f","g","h","i","j","k","l","m",
      "n","o","p","q","r","s","t","u","v","w","x","y","z">>

UpperLetters ==
    <<"A","B","C","D","E","F","G","H","I","J","K","L","M",
      "N","O","P","Q","R","S","T","U","V","W","X","Y","Z">>

Digits == <<"0","1","2","3","4","5","6","7","8","9">>

IsUpperChar(c) == \E i \in 1..Len(UpperLetters) : UpperLetters[i] = c

IsDigit(c) == \E i \in 1..Len(Digits) : Digits[i] = c

DigitVal(c) == (CHOOSE i \in 1..Len(Digits) : Digits[i] = c) - 1

\* The upper-case letter of each lower-case letter.
UpperOf ==
    [c \in {LowerLetters[i] : i \in 1..Len(LowerLetters)} |->
        UpperLetters[CHOOSE i \in 1..Len(LowerLetters) : LowerLetters[i] = c]]

ToUpperChar(c) == IF c \in DOMAIN UpperOf THEN UpperOf[c] ELSE c

\* strings.ToUpper
ToUpper(s) == [i \in 1..Len(s) |-> ToUpperChar(s[i])]

\* A struct field is exported when its name begins with an upper-case letter;
\* reflect refuses to Set a Value obtained through an unexported field.
IsExported(name) == Len(name) > 0 /\ IsUpperChar(name[1])

\* ----------------------------------------------------------- strconv.Atoi

\* The range of int (a build whose int is 32 bits wide).
MaxInt == 2147483647

MinInt == -MaxInt - 1

AllDigits(s) == \A i \in 1..Len(s) : IsDigit(s[i])

\* Accumulate the magnitude digit by digit; n = -1 once it exceeds MaxInt + 1,
\* and n = -2 stands for exactly MaxInt + 1 (which only a negative sign can use).
RECURSIVE Magnitude(_, _)
Magnitude(s, n) ==
    IF s = <<>> THEN n
    ELSE LET d == DigitVal(Head(s)) IN
         IF n < 0 THEN Magnitude(Tail(s), -1)
         ELSE IF n <= (MaxInt - d) \div 10 THEN Magnitude(Tail(s), n * 10 + d)
         ELSE IF n = MaxInt \div 10 /\ d = (MaxInt % 10) + 1
              THEN Magnitude(Tail(s), -2)
         ELSE Magnitude(Tail(s), -1)

AtoiDropSign(s) ==
    LET neg  == Len(s) > 0 /\ s[1] = "-"
        sign == Len(s) > 0 /\ s[1] \in {"+", "-"}
        body == IF sign THEN Tail(s) ELSE s
        m    == Magnitude(body, 0)
    IN  IF body = <<>> \/ ~AllDigits(body) THEN [ok |-> FALSE, v |-> 0]
        ELSE IF m >= 0 THEN [ok |-> TRUE, v |-> m]
        ELSE [ok |-> FALSE, v |-> 0]

\* strconv.Atoi(s): optional sign, one or more decimal digits, value within int.
Atoi(s) ==
    LET neg  == Len(s) > 0 /\ s[1] = "-"
        sign == Len(s) > 0 /\ s[1] \in {"+", "-"}
        body == IF sign THEN Tail(s) ELSE s
        m    == Magnitude(body, 0)
    IN  IF body = <<>> \/ ~AllDigits(body) THEN [ok |-> FALSE, v |-> 0]
        ELSE IF m >= 0 THEN [ok |-> TRUE, v |-> IF neg THEN -m ELSE m]
        ELSE IF m = -2 /\ neg THEN [ok |-> TRUE, v |-> MinInt]
        ELSE [ok |-> FALSE, v |-> 0]

\* ---------------------------------------------------------- strings.Split

HasPrefix(s, p) == Len(s) >= Len(p) /\ SubSeq(s, 1, Len(p)) = p

RECURSIVE SplitFrom(_, _, _)
SplitFrom(s, sep, cur) ==
    IF s = <<>> THEN <<cur>>
    ELSE IF HasPrefix(s, sep)
         THEN <<cur>> \o SplitFrom(SubSeq(s, Len(sep) + 1, Len(s)), sep, <<>>)
         ELSE SplitFrom(Tail(s), sep, Append(cur, Head(s)))

SplitSkipEmpty(s, sep) ==
    IF sep = <<>> THEN [i \in 1..Len(s) |-> <<s[i]>>]
    ELSE SelectSeq(SplitFrom(s, sep, <<>>), LAMBDA p : p # <<>>)

\* strings.Split(s, sep): with an empty sep the string is exploded into its
\* characters; otherwise it is cut at every occurrence of sep.
Split(s, sep) ==
    IF sep = <<>> THEN [i \in 1..Len(s) |-> <<s[i]>>]
    ELSE SplitFrom(s, sep, <<>>)

\* ------------------------------------------------- text and name literals

Linux == <<"l","i","n","u","x">>

Windows == <<"w","i","n","d","o","w","s">>

Darwin == <<"d","a","r","w","i","n">>

Colon == <<":">>

Semicolon == <<";">>

HOST == <<"H","O","S","T">>

USER == <<"U","S","E","R">>

USERNAME == <<"U","S","E","R","N","A","M","E">>

FOO == <<"F","O","O">>

BAR == <<"B","A","R">>

\* The variable names of the modelled process environment.
EnvNames == {HOST, USER, USERNAME, FOO, BAR}

Unset == [set |-> FALSE, val |-> EmptyStr]

Value(s) == [set |-> TRUE, val |-> s]

\* os.Getenv: the value of the variable, "" when it is not present.
Getenv(environ, name) ==
    IF name \in DOMAIN environ /\ environ[name].set
    THEN environ[name].val
    ELSE EmptyStr

\* ------------------------------------------------------------ reflection

\* reflect.ValueOf(x) for a string, an int and a []string: one slot per type.
StrVal(x) == [str |-> x, num |-> 0, list |-> <<>>]

IntVal(x) == [str |-> EmptyStr, num |-> x, list |-> <<>>]

ListVal(x) == [str |-> EmptyStr, num |-> 0, list |-> x]

NoPanic == "none"

PanicAtoi == "ReadEnvVars: Illegal atoi conversion"

PanicType == "ReadEnvVars: Unexpected type"

PanicKind == "ReadEnvVars: Unexpected kind"

PanicUnexported == "reflect: reflect.Value.Set using value obtained using unexported field"

\* reflect.Value.Kind of a field of the given type.
Kind(type) ==
    CASE type = "string"   -> "String"
      [] type = "int"      -> "Int"
      [] type = "[]string" -> "Slice"
      [] type = "[]int"    -> "Slice"
      [] type = "float64"  -> "Float64"

\* reflect.Value.Set on a struct field: panics when the field is unexported,
\* otherwise stores the value.
Set(field, v) ==
    IF IsExported(field.name)
    THEN [field |-> [field EXCEPT !.val = v], panic |-> NoPanic]
    ELSE [field |-> field, panic |-> PanicUnexported]

Fault(field, msg) == [field |-> field, panic |-> msg]

\* ------------------------------------------------------------- getEnvVal

\* Mutant: the length test on the value is missing.
getEnvValNoPresenceTest(envname, field, environ, sep) ==
    LET envVal == Getenv(environ, envname) IN
    CASE Kind(field.type) = "String" -> Set(field, StrVal(envVal))
      [] Kind(field.type) = "Int" ->
            IF Atoi(envVal).ok THEN Set(field, IntVal(Atoi(envVal).v))
            ELSE Fault(field, PanicAtoi)
      [] Kind(field.type) = "Slice" ->
            IF field.type = "[]string" THEN Set(field, ListVal(Split(envVal, sep)))
            ELSE Fault(field, PanicType)
      [] OTHER -> Fault(field, PanicKind)

\* Mutant: the kind of the field is examined before the value is read.
getEnvValKindFirst(envname, field, environ, sep) ==
    LET envVal == Getenv(environ, envname) IN
    IF Kind(field.type) \notin {"String", "Int", "Slice"} THEN Fault(field, PanicKind)
    ELSE IF Kind(field.type) = "Slice" /\ field.type # "[]string"
    THEN Fault(field, PanicType)
    ELSE IF Len(envVal) > 0 THEN
        CASE Kind(field.type) = "String" -> Set(field, StrVal(envVal))
          [] Kind(field.type) = "Int" ->
                IF Atoi(envVal).ok THEN Set(field, IntVal(Atoi(envVal).v))
                ELSE Fault(field, PanicAtoi)
          [] OTHER -> Set(field, ListVal(Split(envVal, sep)))
    ELSE [field |-> field, panic |-> NoPanic]

\* getEnvVal(envname, field): the field after the call and the panic it raised.
getEnvVal(envname, field, environ, sep) ==
    LET envVal == Getenv(environ, envname) IN
    IF Len(envVal) > 0 THEN
        CASE Kind(field.type) = "String" -> Set(field, StrVal(envVal))
          [] Kind(field.type) = "Int" ->
                IF Atoi(envVal).ok THEN Set(field, IntVal(Atoi(envVal).v))
                ELSE Fault(field, PanicAtoi)
          [] Kind(field.type) = "Slice" ->
                IF field.type = "[]string" THEN Set(field, ListVal(Split(envVal, sep)))
                ELSE Fault(field, PanicType)
          [] OTHER -> Fault(field, PanicKind)
    ELSE [field |-> field, panic |-> NoPanic]

\* ----------------------------------------------------------- ReadEnvVars

\* The loop of ReadEnvVars from field i on: fields are visited in declaration
\* order and a panic leaves the loop at once.
RECURSIVE ReadFields(_, _, _, _)
ReadFields(rec, i, environ, sep) ==
    IF i > Len(rec) THEN [rec |-> rec, panic |-> NoPanic, at |-> 0]
    ELSE LET r == getEnvVal(ToUpper(rec[i].name), rec[i], environ, sep) IN
         IF r.panic # NoPanic THEN [rec |-> rec, panic |-> r.panic, at |-> i]
         ELSE ReadFields([rec EXCEPT ![i] = r.field], i + 1, environ, sep)

\* ---------------------------------------------------------------- getEnv

\* The package variable env seen as the record ReadEnvVars(&env) walks.
EnvStruct(e) ==
    << [name |-> <<"H","o","s","t">>, type |-> "string", val |-> StrVal(e.Host)],
       [name |-> <<"U","s","e","r">>, type |-> "string", val |-> StrVal(e.User)] >>

\* Mutant: USERNAME is consulted whatever USER gave.
getEnvUsernameAlways(e, environ, os, sep0) ==
    LET r     == ReadFields(EnvStruct(e), 1, environ, sep0)
        host  == IF r.rec[1].val.str = EmptyStr THEN os ELSE r.rec[1].val.str
        user  == getEnvVal(USERNAME, r.rec[2], environ, sep0).field.val.str
    IN  [Host |-> host, User |-> user,
         sep |-> IF host = Windows THEN Semicolon ELSE Colon]

\* Mutant: the separator follows runtime.GOOS instead of the resolved host.
getEnvSepFromGOOS(e, environ, os, sep0) ==
    LET r     == ReadFields(EnvStruct(e), 1, environ, sep0)
        host  == IF r.rec[1].val.str = EmptyStr THEN os ELSE r.rec[1].val.str
        user  == IF r.rec[2].val.str = EmptyStr
                 THEN getEnvVal(USERNAME, r.rec[2], environ, sep0).field.val.str
                 ELSE r.rec[2].val.str
    IN  [Host |-> host, User |-> user,
         sep |-> IF os = Windows THEN Semicolon ELSE Colon]

\* getEnv(): env after the call and the separator it returns.  sep0 is the
\* value envSep has while getEnv runs.
getEnvResult(e, environ, os, sep0) ==
    LET r     == ReadFields(EnvStruct(e), 1, environ, sep0)
        host  == IF r.rec[1].val.str = EmptyStr THEN os ELSE r.rec[1].val.str
        user  == IF r.rec[2].val.str = EmptyStr
                 THEN getEnvVal(USERNAME, r.rec[2], environ, sep0).field.val.str
                 ELSE r.rec[2].val.str
    IN  [Host |-> host, User |-> user,
         sep |-> IF host = Windows THEN Semicolon ELSE Colon]

\* ------------------------------------------------------ caller's records

\* The caller-supplied (default) value of a field of each type.
DefaultOf(type) ==
    CASE type = "string"   -> StrVal(<<"d">>)
      [] type = "int"      -> IntVal(7)
      [] type = "[]string" -> ListVal(<< <<"x">> >>)
      [] type = "[]int"    -> ListVal(<< <<"1">> >>)
      [] type = "float64"  -> IntVal(15)

NameFoo == <<"F","o","o">>

NameLowerFoo == <<"f","o","o">>

NameBar == <<"B","a","r">>

MkField(n, t) == [name |-> n, type |-> t, val |-> DefaultOf(t)]

\* The fields a caller's struct is built from: exported and unexported names,
\* the three supported types and two unsupported ones.
FieldChoices ==
    { MkField(NameFoo, "string"), MkField(NameFoo, "[]string"),
      MkField(NameLowerFoo, "string"), MkField(NameLowerFoo, "[]int"),
      MkField(NameBar, "int"), MkField(NameBar, "float64") }

\* A struct has no two fields of the same name.
DistinctNames(rec) ==
    \A i, j \in 1..Len(rec) : i # j => rec[i].name # rec[j].name

RecordsOfLen(n) == { rec \in [1..n -> FieldChoices] : DistinctNames(rec) }

Records == UNION { RecordsOfLen(n) : n \in 1..MaxFields }

BootRecords == RecordsOfLen(1)

\* ----------------------------------------------------- environment values

ListTexts ==
    { <<"a",":","b",";","c">>, <<":","a",":",":",";",";">> }

IntTexts ==
    { <<"4","2">>, <<"-","7">>, <<"+","0","8">>, <<"4","x">>,
      <<"2","1","4","7","4","8","3","6","4","8">>,
      <<"-","2","1","4","7","4","8","3","6","4","8">> }

\* What a variable may hold: absent, present and empty, or a text.
EntriesOf(name) ==
    {Unset, Value(EmptyStr)} \cup
    CASE name = FOO      -> {Value(t) : t \in ListTexts}
      [] name = BAR      -> {Value(t) : t \in IntTexts}
      [] name = HOST     -> {Value(Windows), Value(<<"b","o","x">>)}
      [] name = USER     -> {Value(<<"a","l">>)}
      [] name = USERNAME -> {Value(<<"b","o">>)}

BootNames == {HOST, USER, USERNAME}

BootEntriesOf(name) ==
    CASE name = FOO -> {Unset, Value(<<":","a",":",":",";",";">>)}
      [] name = BAR -> {Unset, Value(<<"4","x">>)}
      [] OTHER      -> EntriesOf(name)

GOOSValues == {Linux, Windows, Darwin}

\* ------------------------------------------------------------------ state

NoCall == [op |-> "none"]

\* Before any package variable is initialised: env is the zero struct and
\* envSep the empty string.  The binder runs start with the start-up
\* variables absent and the caller's variables arbitrary.
Init ==
    /\ pc = "boot"
    /\ goos \in {Linux, Windows}
    /\ osenv \in { f \in [EnvNames -> UNION {EntriesOf(n) : n \in EnvNames}] :
                     /\ \A n \in BootNames : f[n] = Unset
                     /\ \A n \in EnvNames : f[n] \in EntriesOf(n) }
    /\ env = [Host |-> EmptyStr, User |-> EmptyStr]
    /\ envSep = EmptyStr
    /\ call = NoCall

\* The start-up runs start with arbitrary start-up variables.
InitBoot ==
    /\ pc = "boot"
    /\ goos \in GOOSValues
    /\ osenv \in { f \in [EnvNames -> UNION {EntriesOf(n) : n \in EnvNames}] :
                     /\ \A n \in EnvNames \ BootNames : f[n] = Unset
                     /\ \A n \in BootNames : f[n] \in EntriesOf(n) }
    /\ env = [Host |-> EmptyStr, User |-> EmptyStr]
    /\ envSep = EmptyStr
    /\ call = NoCall

\* envSep = getEnv(): the initialisation of the package variables.
getEnv ==
    /\ pc = "boot"
    /\ LET r == getEnvResult(env, osenv, goos, envSep) IN
         /\ env' = [Host |-> r.Host, User |-> r.User]
         /\ envSep' = r.sep
    /\ pc' = "ready"
    /\ call' = [op |-> "getEnv"]
    /\ UNCHANGED <<goos, osenv>>

\* Mutant: the binder refreshes the snapshot and the separator.
ReadEnvVarsRefreshing(rec) ==
    /\ pc = "ready"
    /\ LET r == ReadFields(rec, 1, osenv, envSep) IN
         call' = [op |-> "ReadEnvVars", arg |-> rec, rec |-> r.rec,
                  panic |-> r.panic, at |-> r.at]
    /\ LET g == getEnvResult(env, osenv, goos, envSep) IN
         /\ env' = [Host |-> g.Host, User |-> g.User]
         /\ envSep' = g.sep
    /\ UNCHANGED <<pc, goos, osenv>>

\* ReadEnvVars(&rec) by a caller, on a record holding the caller's defaults.
\* call records the argument, the record left behind and the panic, if any.
ReadEnvVars(rec) ==
    /\ pc = "ready"
    /\ LET r == ReadFields(rec, 1, osenv, envSep) IN
         call' = [op |-> "ReadEnvVars", arg |-> rec, rec |-> r.rec,
                  panic |-> r.panic, at |-> r.at]
    /\ UNCHANGED <<pc, goos, osenv, env, envSep>>

Host ==
    /\ pc = "ready"
    /\ call' = [op |-> "Host", ret |-> env.Host]
    /\ UNCHANGED <<pc, goos, osenv, env, envSep>>

User ==
    /\ pc = "ready"
    /\ call' = [op |-> "User", ret |-> env.User]
    /\ UNCHANGED <<pc, goos, osenv, env, envSep>>

IsLinux ==
    /\ pc = "ready"
    /\ call' = [op |-> "IsLinux", ret |-> (env.Host = Linux)]
    /\ UNCHANGED <<pc, goos, osenv, env, envSep>>

IsWindows ==
    /\ pc = "ready"
    /\ call' = [op |-> "IsWindows", ret |-> (env.Host = Windows)]
    /\ UNCHANGED <<pc, goos, osenv, env, envSep>>

\* The rest of the program changes the process environment that os.Getenv reads.
Setenv(name, entry) ==
    /\ pc = "ready"
    /\ osenv[name] # entry
    /\ osenv' = [osenv EXCEPT ![name] = entry]
    /\ call' = [op |-> "Setenv"]
    /\ UNCHANGED <<pc, goos, env, envSep>>

Bind == \E rec \in Records : ReadEnvVars(rec)

BindBoot == \E rec \in BootRecords : ReadEnvVars(rec)

SetenvField == \E n \in EnvNames \ BootNames : \E e \in EntriesOf(n) : Setenv(n, e)

SetenvBoot == \E n \in EnvNames : \E e \in BootEntriesOf(n) : Setenv(n, e)

Next ==
    \/ getEnv
    \/ Bind
    \/ SetenvField
    \/ Host
    \/ User
    \/ IsLinux
    \/ IsWindows

NextBoot ==
    \/ getEnv
    \/ BindBoot
    \/ SetenvBoot
    \/ Host
    \/ User
    \/ IsLinux
    \/ IsWindows

\* The binder on arbitrary caller variables.
Spec == Init /\ [][Next]_vars

\* Start-up on arbitrary HOST, USER and USERNAME, and the life after it.
SpecBoot == InitBoot /\ [][NextBoot]_vars

\* ------------------------------------------- vocabulary of the properties

\* The last operation was a ReadEnvVars call; call.arg is the record as the
\* caller passed it and call.rec the record the call left behind.
Bound == pc = "ready" /\ call.op = "ReadEnvVars"

Fields == 1..Len(call.arg)

\* The text of the variable a field is bound from.
VarOf(i) == Getenv(osenv, ToUpper(call.arg[i].name))

\* The variable of field i is in the environment, with the empty value.
PresentEmpty(i) ==
    LET n == ToUpper(call.arg[i].name) IN osenv[n].set /\ osenv[n].val = EmptyStr

Aborted == call.panic # NoPanic

\* The loop came to field i / went past field i.
Reached(i) == ~Aborted \/ call.at >= i

Passed(i) == ~Aborted \/ call.at > i

Untouched(i) == call.rec[i] = call.arg[i]

Supported(type) == type \in {"string", "int", "[]string"}

\* Decimal notation, written independently of Atoi.
RECURSIVE NatText(_)
NatText(n) ==
    IF n < 10 THEN <<Digits[n + 1]>>
    ELSE Append(NatText(n \div 10), Digits[(n % 10) + 1])

\* The decimal text of an int; a negative n is written from its last digit,
\* so that MinInt needs no negation.
IntText(n) ==
    IF n >= 0 THEN NatText(n)
    ELSE LET last == (10 - (n % 10)) % 10
             rest == -((n + last) \div 10)
         IN  <<"-">> \o (IF rest = 0 THEN <<>> ELSE NatText(rest)) \o <<Digits[last + 1]>>

RECURSIVE StripZeros(_)
StripZeros(ds) ==
    IF Len(ds) > 1 /\ Head(ds) = "0" THEN StripZeros(Tail(ds)) ELSE ds

TextDigits(t) == IF Len(t) > 0 /\ t[1] \in {"+", "-"} THEN Tail(t) ELSE t

\* t is an optional sign followed by one or more decimal digits.
IsDecimal(t) ==
    /\ Len(TextDigits(t)) > 0
    /\ \A i \in 1..Len(TextDigits(t)) : TextDigits(t)[i] \in {Digits[d] : d \in 1..10}

\* The shortest text of the same number: no "+", no leading zeros, no "-0".
Canonical(t) ==
    LET mag == StripZeros(TextDigits(t)) IN
    IF t[1] = "-" /\ mag # <<"0">> THEN <<"-">> \o mag ELSE mag

\* a <= b for two digit strings of the same length.
RECURSIVE DigitsLE(_, _)
DigitsLE(a, b) ==
    IF a = <<>> THEN TRUE
    ELSE LET x == CHOOSE d \in 1..10 : Digits[d] = Head(a)
             y == CHOOSE d \in 1..10 : Digits[d] = Head(b)
         IN  x < y \/ (x = y /\ DigitsLE(Tail(a), Tail(b)))

\* The number a decimal text denotes is an int.
FitsInt(t) ==
    LET mag   == StripZeros(TextDigits(t))
        limit == IF t[1] = "-" THEN Tail(IntText(MinInt)) ELSE IntText(MaxInt)
    IN  Len(mag) < Len(limit) \/ (Len(mag) = Len(limit) /\ DigitsLE(mag, limit))

ValidIntText(t) == IsDecimal(t) /\ FitsInt(t)

RECURSIVE Join(_, _)
Join(l, sep) ==
    IF Len(l) = 0 THEN EmptyStr
    ELSE IF Len(l) = 1 THEN l[1]
    ELSE l[1] \o sep \o Join(Tail(l), sep)

\* The number of occurrences of the one-character separator in t.
Count(t, sep) == Cardinality({i \in 1..Len(t) : <<t[i]>> = sep})

\* l is the literal split of t at sep: joining gives t back, no piece holds a
\* separator, and there is one piece more than there are separators.
IsLiteralSplit(l, t, sep) ==
    /\ Join(l, sep) = t
    /\ \A k \in 1..Len(l) : Count(l[k], sep) = 0
    /\ Len(l) = Count(t, sep) + 1

\* ------------------------------------------------------------------ C1

\* C1: a field of a supported kind whose variable is absent or empty keeps the
\* value the caller supplied, and a record none of whose fields has a
\* non-empty variable comes back unchanged from a call that does not abort.
C1_EmptyVariableLeavesField ==
    Bound =>
        /\ \A i \in Fields :
              (Supported(call.arg[i].type) /\ VarOf(i) = EmptyStr) => Untouched(i)
        /\ (\A i \in Fields : VarOf(i) = EmptyStr) =>
              (call.rec = call.arg /\ ~Aborted)

\* A call bound one field and left alone a supported field whose variable is
\* present and empty.
C1_Witness ==
    /\ Bound
    /\ ~Aborted
    /\ \E i, j \in Fields :
          /\ Supported(call.arg[i].type)
          /\ PresentEmpty(i)
          /\ Untouched(i)
          /\ ~Untouched(j)

\* ------------------------------------------------------------------ C2

\* C2: an exported int field the loop reaches, with a non-empty variable: a
\* text that is a decimal integer within int leaves that integer in the field;
\* any other text aborts with the atoi panic and leaves the field unassigned.
C2_IntFieldParsedOrFatal ==
    Bound =>
        \A i \in Fields :
            (/\ call.arg[i].type = "int"
             /\ IsExported(call.arg[i].name)
             /\ VarOf(i) # EmptyStr
             /\ Reached(i))
            => IF ValidIntText(VarOf(i))
               THEN /\ Passed(i)
                    /\ IntText(call.rec[i].val.num) = Canonical(VarOf(i))
               ELSE /\ call.panic = PanicAtoi
                    /\ call.at = i
                    /\ Untouched(i)

\* A negative text was bound to an int field.
C2_Witness ==
    /\ Bound
    /\ \E i \in Fields :
          /\ call.arg[i].type = "int"
          /\ VarOf(i) = <<"-","7">>
          /\ Passed(i)
          /\ call.rec[i].val.num = -7

\* ------------------------------------------------------------------ C3

\* C3: an exported []string field the loop reaches, with a non-empty variable,
\* holds the literal split of the value at the separator: pieces in order,
\* empty pieces kept, and joining them gives the value back.
C3_SliceFieldIsLiteralSplit ==
    Bound =>
        \A i \in Fields :
            (/\ call.arg[i].type = "[]string"
             /\ IsExported(call.arg[i].name)
             /\ VarOf(i) # EmptyStr
             /\ Reached(i))
            => /\ Passed(i)
               /\ IsLiteralSplit(call.rec[i].val.list, VarOf(i), envSep)

\* A value with leading and adjacent separators was split into pieces, some empty.
C3_Witness ==
    /\ Bound
    /\ \E i \in Fields :
          /\ call.arg[i].type = "[]string"
          /\ Passed(i)
          /\ Len(call.rec[i].val.list) >= 3
          /\ call.rec[i].val.list[1] = EmptyStr
          /\ \E k \in 2..Len(call.rec[i].val.list) : call.rec[i].val.list[k] = EmptyStr

\* ------------------------------------------------------------------ C4

\* C4: a field whose name does not begin with an upper-case letter is skipped:
\* it is never written and never makes the call abort, whatever the environment.
C4_UnexportedFieldsSkipped ==
    Bound =>
        \A i \in Fields :
            ~IsExported(call.arg[i].name) => (Untouched(i) /\ call.at # i)

\* ------------------------------------------------------------------ C5

\* C5: a field of an unsupported kind the loop reaches aborts the call with the
\* unexpected kind/type panic (not the atoi panic) when its variable is
\* non-empty, and is passed over, unchanged, when the variable is absent or empty.
C5_UnsupportedKindFatalOnlyIfSet ==
    Bound =>
        \A i \in Fields :
            ~Supported(call.arg[i].type) =>
                /\ Untouched(i)
                /\ (VarOf(i) # EmptyStr /\ Reached(i)) =>
                      /\ call.at = i
                      /\ call.panic \in {PanicKind, PanicType}
                      /\ call.panic # PanicAtoi
                /\ VarOf(i) = EmptyStr => call.at # i

\* A call went past an unsupported field whose variable is absent and bound a
\* later field.
C5_Witness ==
    /\ Bound
    /\ ~Aborted
    /\ \E i, j \in Fields :
          /\ i < j
          /\ ~Supported(call.arg[i].type)
          /\ VarOf(i) = EmptyStr
          /\ ~Untouched(j)

\* ------------------------------------------------------------------ C6

\* C6: after start-up Host() is always an operating-system family identifier,
\* whatever HOST held at start-up.
C6_HostIsPlatformFamily ==
    pc = "ready" =>
        /\ env.Host \in GOOSValues
        /\ call.op = "Host" => call.ret \in GOOSValues

\* ------------------------------------------------------------------ C7

\* The user name start-up should resolve from an environment.
ExpectedUser(environ) ==
    IF environ[USER].set /\ environ[USER].val # EmptyStr THEN environ[USER].val
    ELSE IF environ[USERNAME].set /\ environ[USERNAME].val # EmptyStr
    THEN environ[USERNAME].val
    ELSE EmptyStr

\* C7: when start-up completes the user is USER if that is non-empty, else
\* USERNAME if that is non-empty, else the empty string; User() returns it.
C7_UserResolution ==
    /\ (pc = "ready" /\ call.op = "getEnv") => env.User = ExpectedUser(osenv)
    /\ (pc = "ready" /\ call.op = "User") => call.ret = env.User

\* Start-up took the user from USERNAME because USER was present and empty.
C7_Witness ==
    /\ pc = "ready"
    /\ call.op = "getEnv"
    /\ osenv[USER] = Value(EmptyStr)
    /\ osenv[USERNAME].set
    /\ env.User = osenv[USERNAME].val
    /\ env.User # EmptyStr

\* ------------------------------------------------------------------ C8

\* C8: once start-up has completed no step changes env or envSep, and Host()
\* and User() return the snapshot: binder calls, aborted or not, accessor
\* calls and changes of the environment leave them as they were.
C8_SnapshotNeverMutated ==
    [][pc = "ready" =>
          /\ env' = env
          /\ envSep' = envSep
          /\ call'.op = "Host" => call'.ret = env.Host
          /\ call'.op = "User" => call'.ret = env.User]_vars

\* HOST was changed after start-up and a binder call then aborted, and the
\* snapshot still holds the start-up host.
C8_Witness ==
    /\ Bound
    /\ Aborted
    /\ env.Host = Linux
    /\ osenv[HOST] = Value(Windows)
    /\ envSep = Colon

\* ------------------------------------------------------------------ C9

\* The separator the resolved host calls for.
HostSep == IF env.Host = Windows THEN Semicolon ELSE Colon

\* C9: after start-up the separator is ";" exactly when the resolved host is
\* "windows" and ":" otherwise, never empty, and it is the separator every
\* binder call splits []string fields at.
C9_SeparatorFollowsResolvedHost ==
    pc = "ready" =>
        /\ envSep # EmptyStr
        /\ (envSep = Semicolon) <=> (env.Host = Windows)
        /\ (envSep = Colon) <=> (env.Host # Windows)
        /\ call.op = "ReadEnvVars" =>
              \A i \in Fields :
                  (/\ call.arg[i].type = "[]string"
                   /\ IsExported(call.arg[i].name)
                   /\ VarOf(i) # EmptyStr)
                  => IsLiteralSplit(call.rec[i].val.list, VarOf(i), HostSep)

\* The host came from the HOST variable on another platform, and a binder call
\* split a value at ";".
C9_Witness ==
    /\ Bound
    /\ env.Host = Windows
    /\ goos # Windows
    /\ \E i \in Fields :
          /\ call.arg[i].type = "[]string"
          /\ Len(call.rec[i].val.list) = 3
          /\ Count(VarOf(i), Semicolon) = 2

\* ------------------------------------------------------------------ C10

\* A fault as C10 lists them: invalid integer text, or an unsupported kind,
\* with a non-empty variable.
ListedFault(i) ==
    /\ VarOf(i) # EmptyStr
    /\ \/ call.arg[i].type = "int" /\ ~ValidIntText(VarOf(i))
       \/ ~Supported(call.arg[i].type)

\* Field j holds what binding gives it: the caller's value when its variable
\* is absent or empty or the field is not publicly visible, else the converted text.
HoldsBound(j) ==
    IF VarOf(j) = EmptyStr \/ ~IsExported(call.arg[j].name) THEN Untouched(j)
    ELSE CASE call.arg[j].type = "string" -> call.rec[j].val.str = VarOf(j)
           [] call.arg[j].type = "int" ->
                 IntText(call.rec[j].val.num) = Canonical(VarOf(j))
           [] call.arg[j].type = "[]string" ->
                 IsLiteralSplit(call.rec[j].val.list, VarOf(j), envSep)
           [] OTHER -> Untouched(j)

\* C10: a call aborts exactly at the first field, in declaration order, with a
\* listed fault; the fields before it hold their bound values, and that field
\* and the fields after it are unchanged.  Without such a field the call
\* completes and every field holds its bound value.
C10_StopsAtFirstListedFault ==
    Bound =>
        LET F == {i \in Fields : ListedFault(i)} IN
        IF F = {} THEN ~Aborted /\ \A j \in Fields : HoldsBound(j)
        ELSE LET k == CHOOSE i \in F : \A m \in F : i <= m IN
             /\ Aborted
             /\ call.at = k
             /\ \A j \in Fields : j < k => HoldsBound(j)
             /\ \A j \in Fields : j >= k => Untouched(j)

====
